---- MODULE Spec2Model ----
(***************************************************************************)
(* Model of the interactive subsystems of the portfolio page               *)
(* (src/src/App.jsx): the visitor counter hook useVisitorCounter and the   *)
(* AnimatedCounter component.                                              *)
(*                                                                         *)
(* Strings are sequences of one-character strings, so that parseInt and    *)
(* Number.prototype.toString are real conversions.  A JavaScript number is *)
(* a record [nan, v]: either NaN or the integer v.                         *)
(***************************************************************************)
EXTENDS Integers, Sequences, FiniteSets, TLC

\* ------------------------------------------------------------------ bounds
\* Number of tabs (browsing contexts) of the same client.
MaxTabs == 2
\* Cap on the number of writes to the durable key in one behaviour.
MaxWrites == 3

Tabs == 1..MaxTabs

\* ------------------------------------------------------- JavaScript values
\* JS null: a value different from every string.
Null == <<"null">>

Num(v) == [nan |-> FALSE, v |-> v]
NaN == [nan |-> TRUE, v |-> 0]

\* x is falsy as a string-or-null (null and '' are falsy).
Falsy(x) == x = Null \/ x = <<>>

\* n === 0
IsZero(n) == ~n.nan /\ n.v = 0

\* Variant of PlusOne: "currentCount =+ 1", which assigns 1.
PlusOneTypo(n) == Num(1)

\* Variant of PlusOne: "currentCount -= 1".
MinusOne(n) == IF n.nan THEN NaN ELSE Num(n.v - 1)

\* n + 1
PlusOne(n) == IF n.nan THEN NaN ELSE Num(n.v + 1)

DigitChars == <<"0", "1", "2", "3", "4", "5", "6", "7", "8", "9">>

IsDigit(c) == \E i \in 1..10 : DigitChars[i] = c

DigitVal(c) == (CHOOSE i \in 1..10 : DigitChars[i] = c) - 1

\* Drop the leading white space of s.
RECURSIVE TrimStart(_)
TrimStart(s) ==
  IF s # <<>> /\ Head(s) = " " THEN TrimStart(Tail(s)) ELSE s

\* Value of the longest prefix of s made of digits, on top of acc;
\* n counts the digits consumed so far.  No digit at all: NaN.
RECURSIVE ParseDigits(_, _, _)
ParseDigits(s, acc, n) ==
  IF s # <<>> /\ IsDigit(Head(s))
    THEN ParseDigits(Tail(s), acc * 10 + DigitVal(Head(s)), n + 1)
    ELSE IF n = 0 THEN NaN ELSE Num(acc)

Negate(n) == IF n.nan THEN NaN ELSE Num(0 - n.v)

\* parseInt(s) without a radix, for decimal input: leading white space is
\* skipped, one sign is accepted, digits are read up to the first other
\* character, and NaN is returned when there is no digit.
parseInt(s) ==
  LET t == TrimStart(s) IN
    IF t # <<>> /\ Head(t) = "-" THEN Negate(ParseDigits(Tail(t), 0, 0))
    ELSE IF t # <<>> /\ Head(t) = "+" THEN ParseDigits(Tail(t), 0, 0)
    ELSE ParseDigits(t, 0, 0)

\* Decimal digits of the natural number v.
RECURSIVE NatToString(_)
NatToString(v) ==
  IF v < 10 THEN <<DigitChars[v + 1]>>
  ELSE Append(NatToString(v \div 10), DigitChars[(v % 10) + 1])

\* Number.prototype.toString()
toString(n) ==
  IF n.nan THEN <<"N", "a", "N">>
  ELSE IF n.v < 0 THEN <<"-">> \o NatToString(0 - n.v)
  ELSE NatToString(n.v)

\* Storage.getItem / Storage.setItem on a store (a function from the keys
\* present to their strings).
getItem(store, k) == IF k \in DOMAIN store THEN store[k] ELSE Null

setItem(store, k, v) ==
  [x \in DOMAIN store \cup {k} |-> IF x = k THEN v ELSE store[x]]

EmptyStorage == [x \in {} |-> <<>>]

\* --------------------------------------------------------- useVisitorCounter
STORAGE_KEY == "naeem_portfolio_visitors"
VISITED_KEY == "naeem_portfolio_visited_session"
BASE_COUNT == 1250

\* The string 'true' written under VISITED_KEY.
TrueString == <<"t", "r", "u", "e">>

VARIABLES
  localStorage,      \* the durable store, shared by all tabs
  sessionStorage,    \* per tab: the session-scoped store
  pc,                \* per tab: position of the hook's effect
  readItem,          \* per tab: result of localStorage.getItem(STORAGE_KEY)
  currentCount,      \* per tab: the effect's local currentCount
  hasVisitedThisSession, \* per tab: the effect's local of that name
  count,             \* per tab: the hook's state count
  loading,           \* per tab: the hook's state loading
  numWrites,         \* history: writes made to the durable key so far
  readAt             \* history, per tab: numWrites when the running effect read

visitorVars == <<localStorage, sessionStorage, pc, readItem, currentCount,
                 hasVisitedThisSession, count, loading, numWrites, readAt>>

\* What the durable key may hold when the page is first opened: nothing,
\* a count left by earlier visits, or a string some other script or an
\* earlier version left there.
InitialItems ==
  { Null,
    <<"4", "1">>,
    <<"a", "b", "c">>,
    <<"-", "1">>,
    <<"1", "2", "p", "x">> }

InitVisitor ==
  /\ \E s \in InitialItems :
       localStorage = IF s = Null THEN EmptyStorage
                      ELSE setItem(EmptyStorage, STORAGE_KEY, s)
  /\ sessionStorage = [t \in Tabs |-> EmptyStorage]
  /\ pc = [t \in Tabs |-> "unmounted"]
  /\ readItem = [t \in Tabs |-> Null]
  /\ currentCount = [t \in Tabs |-> Num(0)]
  /\ hasVisitedThisSession = [t \in Tabs |-> Null]
  /\ count = [t \in Tabs |-> Num(0)]
  /\ loading = [t \in Tabs |-> TRUE]
  /\ numWrites = 0
  /\ readAt = [t \in Tabs |-> 0]

\* The effect is not running in tab t.
Idle(t) == pc[t] \in {"unmounted", "done", "threw"}

\* Variant of Mount: constructing the component starts a new session, as if
\* the flag were kept in the component and not in sessionStorage.
MountFreshSession(t) ==
  /\ Idle(t)
  /\ pc' = [pc EXCEPT ![t] = "getCount"]
  /\ count' = [count EXCEPT ![t] = Num(0)]
  /\ loading' = [loading EXCEPT ![t] = TRUE]
  /\ sessionStorage' = [sessionStorage EXCEPT ![t] = EmptyStorage]
  /\ UNCHANGED <<localStorage, readItem, currentCount,
                 hasVisitedThisSession, numWrites, readAt>>

\* The component using the hook is constructed in tab t (first mount, a
\* remount or a reload): useState gives count 0 and loading true, and the
\* effect is scheduled.
Mount(t) ==
  /\ Idle(t)
  /\ pc' = [pc EXCEPT ![t] = "getCount"]
  /\ count' = [count EXCEPT ![t] = Num(0)]
  /\ loading' = [loading EXCEPT ![t] = TRUE]
  /\ UNCHANGED <<localStorage, sessionStorage, readItem, currentCount,
                 hasVisitedThisSession, numWrites, readAt>>

\* A storage call throws: nothing in the effect catches the exception, so it
\* leaves the effect (whose locals go out of scope) with the state untouched.
Throw(t) ==
  /\ pc' = [pc EXCEPT ![t] = "threw"]
  /\ readItem' = [readItem EXCEPT ![t] = Null]
  /\ currentCount' = [currentCount EXCEPT ![t] = Num(0)]
  /\ hasVisitedThisSession' = [hasVisitedThisSession EXCEPT ![t] = Null]
  /\ readAt' = [readAt EXCEPT ![t] = 0]
  /\ UNCHANGED <<localStorage, sessionStorage, count, loading, numWrites>>

\* Variant of SeedCount: the base count is never applied.
SeedCountNoBase(item) == parseInt(IF Falsy(item) THEN <<"0">> ELSE item)

\* parseInt(item || '0'), then the base count for a value that is === 0.
SeedCount(item) ==
  LET n == parseInt(IF Falsy(item) THEN <<"0">> ELSE item) IN
    IF IsZero(n) THEN Num(BASE_COUNT) ELSE n

\* let currentCount = parseInt(localStorage.getItem(STORAGE_KEY) || '0');
\* if (currentCount === 0) currentCount = BASE_COUNT
GetCount(t) ==
  /\ pc[t] = "getCount"
  /\ \E ok \in BOOLEAN :
       IF ok
         THEN /\ readItem' = [readItem EXCEPT ![t] = getItem(localStorage, STORAGE_KEY)]
              /\ currentCount' = [currentCount EXCEPT
                                    ![t] = SeedCount(getItem(localStorage, STORAGE_KEY))]
              /\ readAt' = [readAt EXCEPT ![t] = numWrites]
              /\ pc' = [pc EXCEPT ![t] = "getVisited"]
              /\ UNCHANGED <<localStorage, sessionStorage, hasVisitedThisSession,
                             count, loading, numWrites>>
         ELSE Throw(t)

\* Variant of NewVisit: the flag is compared with the boolean true, which the
\* stored string 'true' never equals, so every resolution counts as new.
NewVisitStrict(flag) == TRUE

\* The branch taken on hasVisitedThisSession: a falsy value increments.
NewVisit(flag) == Falsy(flag)

\* Variant of GetVisited: currentCount += 1 stands before the if, so it
\* runs on every resolution; only the writes are inside the branch.
GetVisitedIncrementFirst(t) ==
  /\ pc[t] = "getVisited"
  /\ \E ok \in BOOLEAN :
       IF ok
         THEN LET flag == getItem(sessionStorage[t], VISITED_KEY) IN
              /\ hasVisitedThisSession' = [hasVisitedThisSession EXCEPT ![t] = flag]
              /\ currentCount' = [currentCount EXCEPT ![t] = PlusOne(currentCount[t])]
              /\ pc' = [pc EXCEPT ![t] = IF NewVisit(flag) THEN "setStorage"
                                                           ELSE "commit"]
              /\ UNCHANGED <<localStorage, sessionStorage, readItem, count,
                             loading, numWrites, readAt>>
         ELSE Throw(t)

\* const hasVisitedThisSession = sessionStorage.getItem(VISITED_KEY);
\* if (!hasVisitedThisSession) { currentCount += 1; ...
GetVisited(t) ==
  /\ pc[t] = "getVisited"
  /\ \E ok \in BOOLEAN :
       IF ok
         THEN LET flag == getItem(sessionStorage[t], VISITED_KEY) IN
              /\ hasVisitedThisSession' = [hasVisitedThisSession EXCEPT ![t] = flag]
              /\ IF NewVisit(flag)
                   THEN /\ currentCount' = [currentCount EXCEPT
                                              ![t] = PlusOne(currentCount[t])]
                        /\ pc' = [pc EXCEPT ![t] = "setStorage"]
                   ELSE /\ currentCount' = currentCount
                        /\ pc' = [pc EXCEPT ![t] = "commit"]
              /\ UNCHANGED <<localStorage, sessionStorage, readItem, count,
                             loading, numWrites, readAt>>
         ELSE Throw(t)

\* Variant of SetStorage: the stored value is read again and incremented at
\* the moment of the write (an atomic increment), not taken from the local.
SetStorageAtomic(t) ==
  /\ pc[t] = "setStorage"
  /\ numWrites < MaxWrites
  /\ \E ok \in BOOLEAN :
       IF ok
         THEN /\ localStorage' =
                   setItem(localStorage, STORAGE_KEY,
                           toString(PlusOne(SeedCount(getItem(localStorage, STORAGE_KEY)))))
              /\ numWrites' = numWrites + 1
              /\ pc' = [pc EXCEPT ![t] = "setVisited"]
              /\ UNCHANGED <<sessionStorage, readItem, currentCount,
                             hasVisitedThisSession, count, loading, readAt>>
         ELSE Throw(t)

\* Variant of SetStorage: a failure of the durable write is swallowed and
\* the effect goes on to set the session flag.
SetStorageSwallowsFailure(t) ==
  /\ pc[t] = "setStorage"
  /\ numWrites < MaxWrites
  /\ \E ok \in BOOLEAN :
       /\ localStorage' = IF ok THEN setItem(localStorage, STORAGE_KEY,
                                             toString(currentCount[t]))
                                ELSE localStorage
       /\ numWrites' = IF ok THEN numWrites + 1 ELSE numWrites
       /\ pc' = [pc EXCEPT ![t] = "setVisited"]
       /\ UNCHANGED <<sessionStorage, readItem, currentCount,
                      hasVisitedThisSession, count, loading, readAt>>

\* localStorage.setItem(STORAGE_KEY, currentCount.toString())
SetStorage(t) ==
  /\ pc[t] = "setStorage"
  /\ numWrites < MaxWrites
  /\ \E ok \in BOOLEAN :
       IF ok
         THEN /\ localStorage' = setItem(localStorage, STORAGE_KEY,
                                         toString(currentCount[t]))
              /\ numWrites' = numWrites + 1
              /\ pc' = [pc EXCEPT ![t] = "setVisited"]
              /\ UNCHANGED <<sessionStorage, readItem, currentCount,
                             hasVisitedThisSession, count, loading, readAt>>
         ELSE Throw(t)

\* sessionStorage.setItem(VISITED_KEY, 'true')
SetVisited(t) ==
  /\ pc[t] = "setVisited"
  /\ \E ok \in BOOLEAN :
       IF ok
         THEN /\ sessionStorage' = [sessionStorage EXCEPT
                                      ![t] = setItem(sessionStorage[t], VISITED_KEY,
                                                     TrueString)]
              /\ pc' = [pc EXCEPT ![t] = "commit"]
              /\ UNCHANGED <<localStorage, readItem, currentCount,
                             hasVisitedThisSession, count, loading, numWrites, readAt>>
         ELSE Throw(t)

\* Variant of Commit: setLoading(false) is rendered on its own, before the
\* count is set.
CommitLoadingFirst(t) ==
  /\ pc[t] = "commit"
  /\ loading' = [loading EXCEPT ![t] = FALSE]
  /\ pc' = [pc EXCEPT ![t] = "done"]
  /\ readItem' = [readItem EXCEPT ![t] = Null]
  /\ currentCount' = [currentCount EXCEPT ![t] = Num(0)]
  /\ hasVisitedThisSession' = [hasVisitedThisSession EXCEPT ![t] = Null]
  /\ readAt' = [readAt EXCEPT ![t] = 0]
  /\ UNCHANGED <<localStorage, sessionStorage, count, numWrites>>

\* setCount(currentCount); setLoading(false): both updates are applied in one
\* render.  The effect returns and its locals go out of scope.
Commit(t) ==
  /\ pc[t] = "commit"
  /\ count' = [count EXCEPT ![t] = currentCount[t]]
  /\ loading' = [loading EXCEPT ![t] = FALSE]
  /\ pc' = [pc EXCEPT ![t] = "done"]
  /\ readItem' = [readItem EXCEPT ![t] = Null]
  /\ currentCount' = [currentCount EXCEPT ![t] = Num(0)]
  /\ hasVisitedThisSession' = [hasVisitedThisSession EXCEPT ![t] = Null]
  /\ readAt' = [readAt EXCEPT ![t] = 0]
  /\ UNCHANGED <<localStorage, sessionStorage, numWrites>>

\* The browsing session of tab t ends (the tab is closed); the next page in
\* this slot starts a new session with an empty session store.
EndSession(t) ==
  /\ Idle(t)
  /\ sessionStorage[t] # EmptyStorage
  /\ sessionStorage' = [sessionStorage EXCEPT ![t] = EmptyStorage]
  /\ pc' = [pc EXCEPT ![t] = "unmounted"]
  /\ UNCHANGED <<localStorage, readItem, currentCount, hasVisitedThisSession,
                 count, loading, numWrites, readAt>>

NextVisitor ==
  \E t \in Tabs :
    \/ Mount(t)
    \/ GetCount(t)
    \/ GetVisited(t)
    \/ SetStorage(t)
    \/ SetVisited(t)
    \/ Commit(t)
    \/ EndSession(t)


\* ----------------------------------------------------------- AnimatedCounter
\* Cap on the time stamp (in ms) up to which a frame with no pending
\* callback may still pass, that is, on how late an animation may start.
MaxStart == 800

\* Time between two frames, in ms (0: the same time stamp again).
FrameDeltas == {0, 400, 900}

\* duration = 2, the default of the prop (Stats never passes another).
DefaultDuration == 2

\* The values Stats passes as end: the fixed stats ...
StaticEnds == {Num(3), Num(20), Num(25)}
\* ... and the counts the visitor hook can resolve to.
ResolvedEnds == {Num(0), Num(42), Num(BASE_COUNT + 1), Num(0 - 4), NaN}

VARIABLES
  end,            \* prop end
  duration,       \* prop duration (seconds)
  loadingProp,    \* prop loading
  isInView,       \* useInView(ref, { once: true, ... })
  displayCount,   \* the component's state count
  rafQueue,       \* callbacks registered with requestAnimationFrame and not
                  \* yet run: the closures animate, each with its startTime
  now,            \* time stamp of the latest frame
  mounted,        \* the counter is mounted
  statsInView,    \* Stats: useInView(ref, { once: true, ... }) of the section
  propChanges     \* history: prop changes made by the parent so far

tweenVars == <<end, duration, loadingProp, isInView, displayCount, rafQueue, now,
               mounted, statsInView, propChanges>>

\* Cap on the number of prop changes a parent makes during one mount.
MaxPropChanges == 1

\* The values a parent may pass as end and duration.
PropEnds == {Num(0), Num(3), Num(20)}
PropDurations == {1, 2}

\* let startTime: undefined is <<>>, a number n is <<n>>.
Undefined == <<>>

\* !startTime: undefined and 0 are falsy.
NotStartTime(st) == st = Undefined \/ st[1] = 0

\* end > 0 (false for NaN)
Positive(n) == ~n.nan /\ n.v > 0

\* Variant of Progress: the quotient without Math.min(..., 1).
ProgressUnclamped(timestamp, startTime, dur) == timestamp - startTime

\* Math.min((timestamp - startTime) / (duration * 1000), 1), kept as its
\* numerator over the denominator duration * 1000.
Progress(timestamp, startTime, dur) ==
  IF timestamp - startTime < dur * 1000 THEN timestamp - startTime ELSE dur * 1000

\* Variant of FloorCount: Math.ceil in place of Math.floor.
CeilCount(p, e, dur) == (p * e + dur * 1000 - 1) \div (dur * 1000)

\* Math.floor(progress * end), with progress given by its numerator p.
FloorCount(p, e, dur) == (p * e) \div (dur * 1000)

\* Variant of Reschedule: progress <= 1, which never stops.
RescheduleAlways(p, dur) == p <= dur * 1000

\* if (progress < 1) requestAnimationFrame(animate)
Reschedule(p, dur) == p < dur * 1000

\* One call animate(timestamp) of the closure c: the closure after the call
\* (startTime set), the value given to setCount, and whether it registered
\* itself again.
Animate(c, timestamp) ==
  LET st == IF NotStartTime(c.startTime) THEN <<timestamp>> ELSE c.startTime
      p  == Progress(timestamp, st[1], c.duration)
  IN  [closure |-> [c EXCEPT !.startTime = st],
       value   |-> FloorCount(p, c.end, c.duration),
       again   |-> Reschedule(p, c.duration)]

\* The callbacks of q run in order at one time stamp: the last value given to
\* setCount (cnt when none ran) and the callbacks registered for the next
\* frame.
RECURSIVE RunFrame(_, _, _, _)
RunFrame(q, timestamp, cnt, out) ==
  IF q = <<>> THEN [value |-> cnt, queue |-> out]
  ELSE LET r == Animate(Head(q), timestamp) IN
         RunFrame(Tail(q), timestamp, r.value,
                  IF r.again THEN Append(out, r.closure) ELSE out)

\* Variant of Starts: the test isInView is missing.
StartsUnseen(inView, ld, e) == ~ld /\ Positive(e)

\* Variant of Starts: the test end > 0 is missing.
StartsAnyEnd(inView, ld, e) == inView /\ ~ld /\ ~e.nan

\* The effect's condition: isInView && !loading && end > 0
Starts(inView, ld, e) == inView /\ ~ld /\ Positive(e)

\* The effect of AnimatedCounter, run after a render in which one of
\* [isInView, end, duration, loading] changed: the queue of callbacks after
\* it.  No cleanup is returned, so callbacks already registered stay.
RunEffect(q, inView, ld, e, dur) ==
  IF Starts(inView, ld, e)
    THEN Append(q, [startTime |-> Undefined, end |-> e.v, duration |-> dur])
    ELSE q

\* What the span shows besides the suffix: {loading ? '...' : count}
Rendered(ld, cnt) == IF ld THEN "..." ELSE cnt

InitTween ==
  /\ \/ end \in StaticEnds /\ loadingProp = FALSE
     \/ end = Num(0) /\ loadingProp = TRUE
  /\ duration = DefaultDuration
  /\ isInView = FALSE
  /\ displayCount = 0
  /\ rafQueue = <<>>
  /\ now = 0
  /\ mounted = TRUE
  /\ statsInView = FALSE
  /\ propChanges = 0

\* Variant of InViewOnce: any report of the observer, intersecting or not,
\* sets the state.
InViewAnyReport(cur, b) == TRUE

\* Variant of InViewOnce: without once: true the latest report is the state.
InViewLatest(cur, b) == b

\* useInView(ref, { once: true, margin: "-100px" }): the state after the
\* observer reported isIntersecting = b.  The first true sets it for good.
InViewOnce(cur, b) == cur \/ b

\* The intersection observer reports isIntersecting = b for the counter's
\* span; the effect runs when isInView changed.
Intersect(b) ==
  /\ mounted
  /\ isInView' = InViewOnce(isInView, b)
  /\ rafQueue' = IF isInView' # isInView
                   THEN RunEffect(rafQueue, isInView', loadingProp, end, duration)
                   ELSE rafQueue
  /\ UNCHANGED <<end, duration, loadingProp, displayCount, now, mounted,
                 statsInView, propChanges>>

\* The intersection observer reports isIntersecting = b for the Stats
\* section, whose isInView only drives the cards' entrance animation.
IntersectStats(b) ==
  /\ mounted
  /\ statsInView' = InViewOnce(statsInView, b)
  /\ UNCHANGED <<end, duration, loadingProp, isInView, displayCount, rafQueue,
                 now, mounted, propChanges>>

\* The visitor hook settles: Stats renders again and passes end = n and
\* loading = false to the visitor stat's counter, whose effect runs.
Settle(n) ==
  /\ mounted
  /\ loadingProp
  /\ end' = n
  /\ loadingProp' = FALSE
  /\ rafQueue' = RunEffect(rafQueue, isInView, FALSE, n, duration)
  /\ UNCHANGED <<duration, isInView, displayCount, now, mounted, statsInView,
                 propChanges>>

\* A display frame dt ms after the latest one: every pending callback runs
\* with the frame's time stamp.  React drops a setCount made for a component
\* that is no longer mounted.
Frame(dt) ==
  /\ rafQueue # <<>> \/ now + dt <= MaxStart
  /\ now' = now + dt
  /\ LET r == RunFrame(rafQueue, now + dt, displayCount, <<>>) IN
       /\ displayCount' = IF mounted THEN r.value ELSE displayCount
       /\ rafQueue' = r.queue
  /\ UNCHANGED <<end, duration, loadingProp, isInView, mounted, statsInView,
                 propChanges>>

\* The counter is unmounted.  Its effect returned no cleanup, so nothing
\* calls cancelAnimationFrame: the pending callbacks stay registered.
Unmount ==
  /\ mounted
  /\ mounted' = FALSE
  /\ UNCHANGED <<end, duration, loadingProp, isInView, displayCount, rafQueue,
                 now, statsInView, propChanges>>

\* The parent renders the counter with the props end = e, duration = d and
\* loading = ld; the effect runs when one of its dependencies changed.
SetProps(e, d, ld) ==
  /\ mounted
  /\ propChanges < MaxPropChanges
  /\ <<e, d, ld>> # <<end, duration, loadingProp>>
  /\ end' = e
  /\ duration' = d
  /\ loadingProp' = ld
  /\ propChanges' = propChanges + 1
  /\ rafQueue' = RunEffect(rafQueue, isInView, ld, e, d)
  /\ UNCHANGED <<isInView, displayCount, now, mounted, statsInView>>

NextTween ==
  \/ \E b \in BOOLEAN : Intersect(b)
  \/ \E b \in BOOLEAN : IntersectStats(b)
  \/ \E n \in ResolvedEnds : Settle(n)
  \/ \E dt \in FrameDeltas : Frame(dt)

\* The counter under any parent: props change at will (the hook settling is
\* one such change), and it is unmounted.
NextComponent ==
  \/ \E b \in BOOLEAN : Intersect(b)
  \/ \E dt \in FrameDeltas : Frame(dt)
  \/ \E e \in PropEnds, d \in PropDurations, ld \in BOOLEAN : SetProps(e, d, ld)
  \/ Unmount

\* ---------------------------------------------------------------- Hero
\* Scroll offsets the page reports: from MaxOverscroll above the top down to
\* MaxScroll, and one far offset.
MaxOverscroll == 50
MaxScroll == 600
FarScroll == 10000
ScrollOffsets == ((0 - MaxOverscroll)..MaxScroll) \cup {FarScroll}

VARIABLES
  scrollY,        \* useScroll().scrollY
  heroY,          \* y = useTransform(scrollY, [0, 500], [0, 150]), times 500
  heroOpacity     \* opacity = useTransform(scrollY, [0, 300], [1, 0]), times 300

scrollVars == <<scrollY, heroY, heroOpacity>>

\* Variant of Transform: interpolation with clamp: false.
TransformUnclamped(v, d0, d1, r0, r1) == r0 * (d1 - d0) + (r1 - r0) * (v - d0)

\* useTransform(value, [d0, d1], [r0, r1]) with its default clamp: true: the
\* input's share of the domain is clamped to [0, 1] and mixed into the
\* range.  The result is kept as its numerator over d1 - d0.
Transform(v, d0, d1, r0, r1) ==
  LET share == IF v - d0 < 0 THEN 0
               ELSE IF v - d0 > d1 - d0 THEN d1 - d0
               ELSE v - d0
  IN  r0 * (d1 - d0) + (r1 - r0) * share

ScrollAtTop ==
  /\ scrollY = 0
  /\ heroY = Transform(0, 0, 500, 0, 150)
  /\ heroOpacity = Transform(0, 0, 300, 1, 0)

\* The page is scrolled to offset v: both transforms are computed again.
Scroll(v) ==
  /\ scrollY' = v
  /\ heroY' = Transform(v, 0, 500, 0, 150)
  /\ heroOpacity' = Transform(v, 0, 300, 1, 0)

NextScroll == \E v \in ScrollOffsets : Scroll(v)

\* -------------------------------------------------------------- CustomCursor
\* Interactive elements (a, button, .hoverable) the page can hold.
MaxElements == 3
Elements == 1..MaxElements
\* Element 2 lies inside element 1 (a link inside a hoverable card); every
\* other element lies beside the others.  0: no interactive parent.
Parent(el) == IF el = 2 THEN 1 ELSE 0
\* Pointer coordinates.
MaxCoord == 2
Coords == 0..MaxCoord

\* The two versions of CustomCursor: "leave" hides the cursor when the
\* pointer leaves the document (src/src/App.jsx), "hover" tracks hovering
\* with listeners on every interactive element (src/unnamed/part_000).
CursorVariants == {"leave", "hover"}

VARIABLES
  cursorVariant,   \* which version of CustomCursor is mounted
  cursorMounted,   \* CustomCursor is mounted
  listeners,       \* event listeners CustomCursor added and nothing removed
  domElements,     \* interactive elements in the document
  mousePosition,   \* state mousePosition: <<>> for null, else <<x, y>>
  isVisible,       \* state isVisible ("leave" version)
  isHovering,      \* state isHovering ("hover" version)
  pointerOver      \* the interactive elements the pointer is over

cursorVars == <<cursorVariant, cursorMounted, listeners, domElements,
                mousePosition, isVisible, isHovering, pointerOver>>

\* A set of elements that holds the parent of each of its elements.
WithParents(elems) == \A el \in elems : Parent(el) = 0 \/ Parent(el) \in elems

\* Event targets: window, document, and the interactive element el.
Window == <<"window">>
Document == <<"document">>
Element(el) == <<"element", el>>

Listener(target, type) == [target |-> target, type |-> type]

\* The listeners the effect of CustomCursor adds when it runs.
AddedAtMount(variant, elems) ==
  IF variant = "leave"
    THEN {Listener(Window, "mousemove"), Listener(Document, "mouseout"),
          Listener(Document, "pointerleave"), Listener(Window, "blur")}
    ELSE {Listener(Window, "mousemove")}
           \cup {Listener(Element(el), "mouseenter") : el \in elems}
           \cup {Listener(Element(el), "mouseleave") : el \in elems}

\* The listeners the cleanup of the effect removes.
RemovedAtUnmount(variant, elems) ==
  IF variant = "leave"
    THEN {Listener(Window, "mousemove"), Listener(Document, "mouseout"),
          Listener(Document, "pointerleave"), Listener(Window, "blur")}
    ELSE {Listener(Window, "mousemove")}

\* CustomCursor just mounted: its effect has run over the elements present.
InitCursor ==
  /\ cursorVariant \in CursorVariants
  /\ cursorMounted = TRUE
  /\ domElements \in {elems \in SUBSET Elements : WithParents(elems)}
  /\ listeners = AddedAtMount(cursorVariant, domElements)
  /\ mousePosition = IF cursorVariant = "leave" THEN <<>> ELSE <<0, 0>>
  /\ isVisible = FALSE
  /\ isHovering = FALSE
  /\ pointerOver = {}

CursorAtRest ==
  /\ cursorVariant = "leave"
  /\ cursorMounted = TRUE
  /\ domElements = {}
  /\ listeners = AddedAtMount("leave", {})
  /\ mousePosition = <<>>
  /\ isVisible = FALSE
  /\ isHovering = FALSE
  /\ pointerOver = {}

\* A handler of CustomCursor runs when its listener is registered; React
\* drops the state updates of a component that is no longer mounted.
Handles(target, type) == Listener(target, type) \in listeners

\* What CustomCursor renders in the "leave" version: nothing if
\* (!mousePosition || !isVisible), else the cursor at mousePosition.
CursorRendered(pos, vis) == pos # <<>> /\ vis

\* Variant of MouseMove: updateMouse without setIsVisible(true).
MouseMoveKeepsHidden(x, y) ==
  /\ Handles(Window, "mousemove")
  /\ cursorMounted
  /\ mousePosition' = <<x, y>>
  /\ UNCHANGED <<cursorVariant, cursorMounted, listeners, domElements,
                 isVisible, isHovering, pointerOver>>

\* mousemove on window: updateMouse / updateMousePosition
MouseMove(x, y) ==
  /\ Handles(Window, "mousemove")
  /\ cursorMounted
  /\ mousePosition' = <<x, y>>
  /\ isVisible' = IF cursorVariant = "leave" THEN TRUE ELSE isVisible
  /\ UNCHANGED <<cursorVariant, cursorMounted, listeners, domElements,
                 isHovering, pointerOver>>

\* hideCursor
HideCursor ==
  /\ cursorMounted
  /\ isVisible' = FALSE
  /\ UNCHANGED <<cursorVariant, cursorMounted, listeners, domElements,
                 mousePosition, isHovering, pointerOver>>

\* mouseout on document, with relatedTarget null (leftDocument), inside the
\* body or outside it: handleMouseOut
MouseOut(related) ==
  /\ Handles(Document, "mouseout")
  /\ IF related = "null" \/ related = "outside"
       THEN HideCursor
       ELSE cursorMounted /\ UNCHANGED cursorVars

\* pointerleave on document
PointerLeave ==
  /\ Handles(Document, "pointerleave")
  /\ HideCursor

\* blur on window
Blur ==
  /\ Handles(Window, "blur")
  /\ HideCursor

\* The pointer moves onto the interactive element el, from outside every
\* interactive element or from el's parent: mouseenter on el runs
\* handleHoverStart when el carries the listener.
MouseEnter(el) ==
  /\ el \in domElements
  /\ el \notin pointerOver
  /\ pointerOver = IF Parent(el) = 0 THEN {} ELSE {Parent(el)}
  /\ pointerOver' = pointerOver \cup {el}
  /\ isHovering' = IF cursorMounted /\ Handles(Element(el), "mouseenter")
                     THEN TRUE ELSE isHovering
  /\ UNCHANGED <<cursorVariant, cursorMounted, listeners, domElements,
                 mousePosition, isVisible>>

\* The pointer moves off the element el (and off nothing inside it, which
\* it had left before): mouseleave on el runs handleHoverEnd when el carries
\* the listener.
MouseLeave(el) ==
  /\ el \in pointerOver
  /\ \A inner \in pointerOver : Parent(inner) # el
  /\ pointerOver' = pointerOver \ {el}
  /\ isHovering' = IF cursorMounted /\ Handles(Element(el), "mouseleave")
                     THEN FALSE ELSE isHovering
  /\ UNCHANGED <<cursorVariant, cursorMounted, listeners, domElements,
                 mousePosition, isVisible>>

\* An interactive element is added to the document after CustomCursor
\* mounted (a menu, a card rendered later): no effect runs for it.
AddElement(el) ==
  /\ el \notin domElements
  /\ WithParents(domElements \cup {el})
  /\ domElements' = domElements \cup {el}
  /\ UNCHANGED <<cursorVariant, cursorMounted, listeners, mousePosition,
                 isVisible, isHovering, pointerOver>>

\* CustomCursor is unmounted: the cleanup of its effect runs.
CursorUnmount ==
  /\ cursorMounted
  /\ cursorMounted' = FALSE
  /\ listeners' = listeners \ RemovedAtUnmount(cursorVariant, domElements)
  /\ UNCHANGED <<cursorVariant, domElements, mousePosition, isVisible,
                 isHovering, pointerOver>>

NextCursor ==
  \/ \E x, y \in Coords : MouseMove(x, y)
  \/ \E r \in {"null", "inside", "outside"} : MouseOut(r)
  \/ PointerLeave
  \/ Blur
  \/ \E el \in Elements : MouseEnter(el)
  \/ \E el \in Elements : MouseLeave(el)
  \/ \E el \in Elements : AddElement(el)
  \/ CursorUnmount

\* -------------------------------------------------------------------- Stats
\* The stat cards of Stats, by label, each with its own AnimatedCounter; and
\* the observed regions: every counter's span and the section itself.
Cards == {"years", "projects", "clients", "visitors"}
Regions == Cards \cup {"section"}

VARIABLES
  regionInView,   \* per region: its useInView(ref, { once: true, ... })
  cardStarted,    \* per card: its counter's effect has registered animate
  statEnd,        \* per card: the prop end Stats passes (stat.value)
  statLoading     \* per card: the prop loading Stats passes (stat.loading)

regionVars == <<regionInView, cardStarted, statEnd, statLoading>>

\* Variant of Observers: every region is observed through one shared ref.
ObserversShared(r) == Regions

\* The regions whose state a report for region r updates: every component
\* instance has its own ref and its own useInView.
Observers(r) == {r}

\* stats[i].value and stats[i].loading before the visitor hook settles; a
\* card without loading gets the prop's default false.
InitRegions ==
  /\ regionInView = [r \in Regions |-> FALSE]
  /\ cardStarted = [c \in Cards |-> FALSE]
  /\ statEnd = [c \in Cards |->
                  CASE c = "years" -> Num(3)
                    [] c = "projects" -> Num(25)
                    [] c = "clients" -> Num(20)
                    [] OTHER -> Num(0)]
  /\ statLoading = [c \in Cards |-> c = "visitors"]

\* The intersection observer reports isIntersecting = b for region r; the
\* effect of a counter whose isInView changed runs.
Observe(r, b) ==
  /\ regionInView' =
       [o \in Regions |-> IF o \in Observers(r)
                            THEN InViewOnce(regionInView[o], b)
                            ELSE regionInView[o]]
  /\ cardStarted' =
       [c \in Cards |->
          \/ cardStarted[c]
          \/ /\ regionInView'[c] # regionInView[c]
             /\ Starts(regionInView'[c], statLoading[c], statEnd[c])]
  /\ UNCHANGED <<statEnd, statLoading>>

\* The visitor hook settles with count n: Stats passes it to the visitor
\* card's counter, whose effect runs.
SettleStat(n) ==
  /\ statLoading["visitors"]
  /\ statEnd' = [statEnd EXCEPT !["visitors"] = n]
  /\ statLoading' = [statLoading EXCEPT !["visitors"] = FALSE]
  /\ cardStarted' = [cardStarted EXCEPT
                       !["visitors"] = Starts(regionInView["visitors"], FALSE, n)]
  /\ UNCHANGED regionInView

NextRegions ==
  \/ \E r \in Regions, b \in BOOLEAN : Observe(r, b)
  \/ \E n \in ResolvedEnds : SettleStat(n)

\* ----------------------------------------------------------- MagneticButton
\* Bounding boxes of the button: left and top up to MaxOrigin, width and
\* height from 1 to MaxSize (in px).
MaxOrigin == 1
MaxSize == 2
Rects == [left : 0..MaxOrigin, top : 0..MaxOrigin,
          width : 1..MaxSize, height : 1..MaxSize]

VARIABLES
  buttonRect,     \* ref.current.getBoundingClientRect()
  position        \* state position, x and y kept times 20

buttonVars == <<buttonRect, position>>

\* Variant of Offset: measured from the box's corner, not from its centre.
OffsetFromCorner(client, origin, size) == 6 * (client - origin)

\* (client - origin - size / 2) * 0.3, times 20
Offset(client, origin, size) == 3 * (2 * (client - origin) - size)

InitButton ==
  /\ buttonRect \in Rects
  /\ position = [x |-> 0, y |-> 0]

ButtonAtRest ==
  /\ buttonRect = [left |-> 0, top |-> 0, width |-> 1, height |-> 1]
  /\ position = [x |-> 0, y |-> 0]

\* onMouseMove: handleMouse, for a pointer at (clientX, clientY) over the
\* button
HandleMouse(clientX, clientY) ==
  /\ clientX >= buttonRect.left /\ clientX <= buttonRect.left + buttonRect.width
  /\ clientY >= buttonRect.top /\ clientY <= buttonRect.top + buttonRect.height
  /\ position' = [x |-> Offset(clientX, buttonRect.left, buttonRect.width),
                  y |-> Offset(clientY, buttonRect.top, buttonRect.height)]
  /\ UNCHANGED buttonRect

\* onMouseLeave: reset
Reset ==
  /\ position' = [x |-> 0, y |-> 0]
  /\ UNCHANGED buttonRect

\* The page is laid out again (scroll, resize): the bounding box changes.
Layout(rect) ==
  /\ rect # buttonRect
  /\ buttonRect' = rect
  /\ UNCHANGED position

\* onClick, passed by Hero through ...props: the page scrolls to a section.
ButtonClick ==
  /\ scrollY # MaxScroll
  /\ Scroll(MaxScroll)
  /\ UNCHANGED buttonVars

NextButton ==
  \/ /\ \E clientX, clientY \in 0..(MaxOrigin + MaxSize) : HandleMouse(clientX, clientY)
     /\ UNCHANGED scrollVars
  \/ Reset /\ UNCHANGED scrollVars
  \/ (\E rect \in Rects : Layout(rect)) /\ UNCHANGED scrollVars
  \/ ButtonClick

\* ------------------------------------------------------------ specifications
vars == <<visitorVars, tweenVars, scrollVars, cursorVars, regionVars, buttonVars>>

\* Stats and the buttons before anything happened to them.
StatsAndButtonsAtRest == InitRegions /\ ButtonAtRest

\* The visitor counter before any page of the client was opened.
VisitorAtRest ==
  /\ localStorage = EmptyStorage
  /\ sessionStorage = [t \in Tabs |-> EmptyStorage]
  /\ pc = [t \in Tabs |-> "unmounted"]
  /\ readItem = [t \in Tabs |-> Null]
  /\ currentCount = [t \in Tabs |-> Num(0)]
  /\ hasVisitedThisSession = [t \in Tabs |-> Null]
  /\ count = [t \in Tabs |-> Num(0)]
  /\ loading = [t \in Tabs |-> TRUE]
  /\ numWrites = 0
  /\ readAt = [t \in Tabs |-> 0]

\* The visitor stat's counter as mounted, before anything happened to it.
TweenAtRest ==
  /\ end = Num(0)
  /\ loadingProp = TRUE
  /\ duration = DefaultDuration
  /\ isInView = FALSE
  /\ displayCount = 0
  /\ rafQueue = <<>>
  /\ now = 0
  /\ mounted = TRUE
  /\ statsInView = FALSE
  /\ propChanges = 0

\* The visitor counter over the tabs of one client.
Init == InitVisitor /\ TweenAtRest /\ ScrollAtTop /\ CursorAtRest /\ StatsAndButtonsAtRest

Next == NextVisitor /\ UNCHANGED <<tweenVars, scrollVars, cursorVars, regionVars, buttonVars>>

Spec == Init /\ [][Next]_vars

\* The visitor counter on a client that never visited: nothing is persisted.
InitFresh == Init /\ localStorage = EmptyStorage

SpecFresh == InitFresh /\ [][Next]_vars

\* One AnimatedCounter.
InitCounter == InitTween /\ VisitorAtRest /\ ScrollAtTop /\ CursorAtRest /\ StatsAndButtonsAtRest

NextCounter == NextTween /\ UNCHANGED <<visitorVars, scrollVars, cursorVars, regionVars, buttonVars>>

SpecTween == InitCounter /\ [][NextCounter]_vars

\* The browser keeps delivering frames, and time advances between frames.
FrameAdvances == \E dt \in FrameDeltas \ {0} : Frame(dt)

SpecTweenFair ==
  SpecTween
    /\ WF_vars(FrameAdvances /\ UNCHANGED <<visitorVars, scrollVars, cursorVars, regionVars, buttonVars>>)

\* One AnimatedCounter under any parent.
SpecComponent ==
  InitCounter
    /\ [][NextComponent /\ UNCHANGED <<visitorVars, scrollVars, cursorVars, regionVars, buttonVars>>]_vars

\* The Hero's scroll transforms.
InitHero == VisitorAtRest /\ TweenAtRest /\ ScrollAtTop /\ CursorAtRest /\ StatsAndButtonsAtRest

NextHero == NextScroll /\ UNCHANGED <<visitorVars, tweenVars, cursorVars, regionVars, buttonVars>>

SpecScroll == InitHero /\ [][NextHero]_vars

\* CustomCursor, in either version.
InitPointer == VisitorAtRest /\ TweenAtRest /\ ScrollAtTop /\ InitCursor /\ StatsAndButtonsAtRest

NextPointer == NextCursor /\ UNCHANGED <<visitorVars, tweenVars, scrollVars, regionVars, buttonVars>>

SpecCursor == InitPointer /\ [][NextPointer]_vars

\* The observed regions of Stats.
InitStatsRegions ==
  VisitorAtRest /\ TweenAtRest /\ ScrollAtTop /\ CursorAtRest /\ InitRegions
    /\ ButtonAtRest

NextStatsRegions ==
  NextRegions /\ UNCHANGED <<visitorVars, tweenVars, scrollVars, cursorVars, buttonVars>>

SpecRegions == InitStatsRegions /\ [][NextStatsRegions]_vars

\* One MagneticButton of the Hero.
InitMagnetic ==
  VisitorAtRest /\ TweenAtRest /\ ScrollAtTop /\ CursorAtRest /\ InitRegions
    /\ InitButton

NextMagnetic ==
  NextButton /\ UNCHANGED <<visitorVars, tweenVars, cursorVars, regionVars>>

SpecButton == InitMagnetic /\ [][NextMagnetic]_vars

\* Stats with its visitor hook and the visitor card's counter, in one tab.
StatsTab == 1

\* Variant of StatsEnd: the visitor card shows the base count.
StatsEndBase(visitorCount) == Num(BASE_COUNT)

\* value: visitorCount, passed on as end={stat.value}
StatsEnd(visitorCount) == visitorCount

\* Stats is constructed (again): its hook starts over, and so does the
\* visitor card's counter, a new instance whose frames are counted from
\* here; callbacks of the former instance no longer reach the display.
StatsMount ==
  /\ Mount(StatsTab)
  /\ end' = StatsEnd(count'[StatsTab])
  /\ loadingProp' = loading'[StatsTab]
  /\ isInView' = FALSE
  /\ displayCount' = 0
  /\ rafQueue' = <<>>
  /\ now' = 0
  /\ UNCHANGED <<duration, mounted, statsInView, propChanges>>

\* A step of the hook's effect that leaves count and loading as they are:
\* Stats does not render.
StatsResolve ==
  /\ \/ GetCount(StatsTab)
     \/ GetVisited(StatsTab)
     \/ SetStorage(StatsTab)
     \/ SetVisited(StatsTab)
  /\ UNCHANGED tweenVars

\* The hook settles: Stats renders with the count and loading = false and
\* passes both to the visitor card's counter.
StatsCommit ==
  /\ Commit(StatsTab)
  /\ Settle(StatsEnd(count'[StatsTab]))

NextStatsFlow ==
  \/ StatsMount
  \/ StatsResolve
  \/ StatsCommit
  \/ (\E b \in BOOLEAN : Intersect(b)) /\ UNCHANGED visitorVars
  \/ (\E dt \in FrameDeltas : Frame(dt)) /\ UNCHANGED visitorVars

InitStatsFlow == Init

NextStats == NextStatsFlow /\ UNCHANGED <<scrollVars, cursorVars, regionVars, buttonVars>>

SpecStats == InitStatsFlow /\ [][NextStats]_vars

\* -------------------------------------------------------------------- claims
\* The session flag of tab t is set (a truthy string is stored under it).
FlagSet(t) == ~Falsy(getItem(sessionStorage[t], VISITED_KEY))

\* The visit count the durable store holds, as the hook reads it; a string
\* that is no number counts as 0.
DurableCount(store) ==
  LET item == getItem(store, STORAGE_KEY)
      n == parseInt(IF Falsy(item) THEN <<"0">> ELSE item)
  IN  IF n.nan THEN 0 ELSE n.v

\* The count the resolution of tab t returns: the value it is about to give
\* to setCount, or the state count once it has.
Returned(t) == IF pc[t] = "commit" THEN currentCount[t] ELSE count[t]

\* s is the decimal form of a non-negative integer.
IsNonNegIntString(s) ==
  /\ s # Null
  /\ s # <<>>
  /\ \A i \in 1..Len(s) : IsDigit(s[i])

\* The running effect of tab t is the first of its session and has written,
\* and no other write was made since it read.
WroteAlone(t) ==
  /\ pc[t] \in {"setVisited", "commit"}
  /\ Falsy(hasVisitedThisSession[t])
  /\ numWrites = readAt[t] + 1

\* C1: once the session flag of a tab is set, no step of that tab's
\* resolutions (however often the component is constructed again) changes
\* the durable store: the count is incremented at most once per session.
C1_IncrementOncePerSession ==
  [][\A t \in Tabs :
       (FlagSet(t) /\ pc'[t] # pc[t]) => localStorage' = localStorage]_vars

\* C1 witness: a later resolution of a flagged session read the flag and is
\* about to return without having written.
C1_Witness ==
  \E t \in Tabs :
    /\ FlagSet(t)
    /\ pc[t] = "commit"
    /\ ~Falsy(hasVisitedThisSession[t])
    /\ numWrites = 1

\* C2: with nothing persisted at first, while the first resolution's write
\* is the only one made, every resolution that returns returns 1251, the
\* durable store holds '1251' and the session flag is set.
C2_FirstVisitReturns1251 ==
  \A t \in Tabs :
    (pc[t] \in {"commit", "done"} /\ numWrites = 1)
      => /\ Returned(t) = Num(1251)
         /\ getItem(localStorage, STORAGE_KEY) = <<"1", "2", "5", "1">>
         /\ FlagSet(t)

\* C2 witness: a second resolution of the same session returned 1251.
C2_Witness ==
  \E t \in Tabs :
    /\ pc[t] = "commit"
    /\ ~Falsy(hasVisitedThisSession[t])
    /\ numWrites = 1
    /\ currentCount[t] = Num(1251)

\* C3: a session's first resolution that read the count C > 0 left by the
\* sessions before it, and whose write no other tab's write overlapped,
\* returns C + 1 with C + 1 persisted.
C3_NextSessionAddsOne ==
  [][\A t \in Tabs :
       (/\ pc[t] = "commit" /\ pc'[t] = "done"
        /\ WroteAlone(t)
        /\ readItem[t] # Null
        /\ Positive(parseInt(readItem[t])))
         => /\ count'[t] = Num(parseInt(readItem[t]).v + 1)
            /\ getItem(localStorage', STORAGE_KEY)
                 = toString(Num(parseInt(readItem[t]).v + 1))]_vars

\* C3 witness: session N ended with 42 persisted and session N+1 is about
\* to return 43, which it persisted.
C3_Witness ==
  \E t \in Tabs :
    /\ WroteAlone(t)
    /\ pc[t] = "commit"
    /\ readItem[t] = <<"4", "2">>
    /\ currentCount[t] = Num(43)
    /\ getItem(localStorage, STORAGE_KEY) = <<"4", "3">>

\* C4 as claimed: no step lowers the durable count, whatever the
\* interleaving of the tabs.
C4_NeverDecreases ==
  [][DurableCount(localStorage') >= DurableCount(localStorage)]_vars

\* C4 amended: a write by a resolution that no other write overlapped (the
\* store still holds what the resolution read) does not lower the durable
\* count.
C4_SequentialNeverDecreases ==
  [][\A t \in Tabs :
       (pc[t] = "setStorage" /\ pc'[t] = "setVisited" /\ readAt[t] = numWrites)
         => DurableCount(localStorage') >= DurableCount(localStorage)]_vars

\* C4 witness: a second write that nothing overlapped has been made.
C4_Witness ==
  \E t \in Tabs :
    /\ pc[t] = "setVisited"
    /\ numWrites = readAt[t] + 1
    /\ numWrites >= 2

\* C5: a failing storage call never makes the resolution raise.
C5_NeverRaises == \A t \in Tabs : pc[t] # "threw"

\* C6: a resolution that read a malformed string returns 1250 or 1251, and
\* what it wrote is a non-negative integer.
C6_MalformedReseeds ==
  \A t \in Tabs :
    (pc[t] = "commit" /\ readItem[t] # Null /\ ~IsNonNegIntString(readItem[t]))
      => /\ currentCount[t] \in {Num(BASE_COUNT), Num(BASE_COUNT + 1)}
         /\ WroteAlone(t) => IsNonNegIntString(getItem(localStorage, STORAGE_KEY))

\* C7: two first resolutions in different tabs that read at the same point
\* and whose two writes are the only ones since read the same item, computed
\* the same count, and the durable store holds that count (one increment).
C7_LostUpdate ==
  \A t1, t2 \in Tabs :
    (/\ t1 # t2
     /\ pc[t1] \in {"setVisited", "commit"}
     /\ pc[t2] \in {"setVisited", "commit"}
     /\ Falsy(hasVisitedThisSession[t1])
     /\ Falsy(hasVisitedThisSession[t2])
     /\ readAt[t1] = readAt[t2]
     /\ numWrites = readAt[t1] + 2)
      => /\ readItem[t1] = readItem[t2]
         /\ currentCount[t1] = currentCount[t2]
         /\ getItem(localStorage, STORAGE_KEY) = toString(currentCount[t1])
         /\ currentCount[t1] = PlusOne(SeedCount(readItem[t1]))

\* C7 witness: both tabs read '41' before either wrote, both wrote, and the
\* store holds '42'.
C7_Witness ==
  \E t1, t2 \in Tabs :
    /\ t1 # t2
    /\ pc[t1] = "commit" /\ pc[t2] = "commit"
    /\ readItem[t1] = <<"4", "1">> /\ readItem[t2] = <<"4", "1">>
    /\ Falsy(hasVisitedThisSession[t1]) /\ Falsy(hasVisitedThisSession[t2])
    /\ numWrites = 2
    /\ getItem(localStorage, STORAGE_KEY) = <<"4", "2">>

\* C8: while the target (> 0) and the duration stay the same, the displayed
\* value never goes down and never exceeds the target.
C8_DisplayMonotone ==
  [][(end' = end /\ duration' = duration /\ Positive(end))
       => (displayCount' >= displayCount /\ displayCount' <= end.v)]_vars

\* C8 witness: the animation is under way, strictly between 0 and the target.
C8_Witness ==
  /\ Positive(end)
  /\ rafQueue # <<>>
  /\ displayCount > 0
  /\ displayCount < end.v

\* The counter's animation has started: its effect's condition holds.
Started == Starts(isInView, loadingProp, end)

\* Once started, one callback is pending as long as the displayed value is
\* not the target, and none once it is.
OnePendingUntilTarget ==
  Started => /\ Len(rafQueue) <= 1
             /\ rafQueue = <<>> <=> displayCount = end.v

\* C9: a started animation eventually displays the target exactly with no
\* callback registered any more; until then every tick registers one.
C9_ReachesTargetAndStops ==
  /\ Started ~> (rafQueue = <<>> /\ displayCount = end.v)
  /\ []OnePendingUntilTarget

\* C9 witness: the animation has ended on the target.
C9_Witness ==
  /\ Started
  /\ rafQueue = <<>>
  /\ displayCount = end.v
  /\ now > 0

\* C10: a settled counter whose target is 0 displays 0 and has no callback
\* registered, in view or not.
C10_ZeroTargetIdle ==
  (~loadingProp /\ end = Num(0)) => (displayCount = 0 /\ rafQueue = <<>>)

\* C10 witness: settled with target 0, revealed, and frames have passed.
C10_Witness ==
  /\ ~loadingProp
  /\ end = Num(0)
  /\ isInView
  /\ now >= 400

\* C11: until the counter is both revealed and settled it has registered no
\* callback and its count is still 0; while loading it shows the placeholder.
C11_IdleUntilRevealedAndSettled ==
  /\ ~(isInView /\ ~loadingProp) => (rafQueue = <<>> /\ displayCount = 0)
  /\ loadingProp => Rendered(loadingProp, displayCount) = "..."

\* C11 witness: revealed but still loading after frames have passed.
C11_Witness ==
  /\ isInView
  /\ loadingProp
  /\ now >= 400

\* C12: a region that is revealed stays revealed over every step, and a
\* report of isIntersecting = true leaves the counter's region revealed.
C12_RevealedStaysRevealed ==
  [][/\ isInView => isInView'
     /\ statsInView => statsInView'
     /\ Intersect(TRUE) => isInView'
     /\ IntersectStats(TRUE) => statsInView']_vars

\* C12 witness: the counter's region was revealed and its animation has
\* advanced, the section's region not yet.
C12_Witness ==
  /\ isInView
  /\ ~statsInView
  /\ displayCount > 0

\* C14: an unmounted counter has no callback registered.
C14_UnmountCancels == ~mounted => rafQueue = <<>>

\* C16: once the counter has ended on its target, no step changes the
\* displayed value or registers a callback.
C16_NotRestartable ==
  [][(mounted /\ Starts(isInView, loadingProp, end) /\ rafQueue = <<>>
        /\ displayCount = end.v)
       => (displayCount' = displayCount /\ rafQueue' = <<>>)]_vars

\* C17: a start time, once recorded, is the start time of every later tick
\* of the run.
C17_StartTimeKept ==
  [][(/\ rafQueue # <<>>
      /\ rafQueue' # <<>>
      /\ Head(rafQueue).startTime # Undefined)
       => Head(rafQueue').startTime = Head(rafQueue).startTime]_vars

\* The start time a tick at time stamp ts works with, for the pending
\* closure c: the one recorded, or ts when none is.
StartUsed(c, ts) ==
  IF c.startTime = Undefined \/ c.startTime[1] = 0 THEN ts ELSE c.startTime[1]

\* (now - start) / total clamped to [0, 1], as its numerator over total.
Clamped(el, total) == IF el < 0 THEN 0 ELSE IF el > total THEN total ELSE el

C13_HeroYClamped ==
  /\ scrollY <= 0 => heroY = 0
  /\ scrollY >= 500 => heroY = 150 * 500
  /\ (scrollY > 0 /\ scrollY < 500)
       => (heroY = scrollY * 150 /\ heroY >= 0 /\ heroY <= 150 * 500)

\* C13 witness: the page was scrolled far below the domain.
C13_Witness == scrollY = FarScroll /\ heroY = 150 * 500

\* C15: after CustomCursor is unmounted none of its listeners is registered.
C15_ListenersRemoved == ~cursorMounted => listeners = {}

\* C19: the session flag of a tab, once set, stays set by every step except
\* the end of that tab's session.
C19_FlagStaysSet ==
  [][\A t \in Tabs : (FlagSet(t) /\ ~EndSession(t)) => FlagSet(t)']_vars

\* C19 witness: the component is constructed again in a session whose flag
\* is set, and the flag is still set when the effect starts.
C19_Witness ==
  \E t \in Tabs : FlagSet(t) /\ pc[t] = "getCount" /\ numWrites >= 1

\* C20: a resolution that reads the flag as set goes straight on to return
\* its working count as read (and seeded), not incremented, and writes to
\* neither store.
C20_FlagSetNoWrite ==
  [][\A t \in Tabs :
       /\ (pc[t] = "getVisited" /\ FlagSet(t) /\ pc'[t] \notin {"getVisited", "threw"})
            => /\ pc'[t] = "commit"
               /\ currentCount'[t] = SeedCount(readItem[t])
               /\ localStorage' = localStorage
               /\ sessionStorage' = sessionStorage
               /\ numWrites' = numWrites
       /\ (pc[t] = "commit" /\ ~Falsy(hasVisitedThisSession[t]) /\ pc'[t] = "done")
            => /\ count'[t] = SeedCount(readItem[t])
               /\ localStorage' = localStorage
               /\ sessionStorage' = sessionStorage]_vars

\* C20 witness: a resolution that found the flag set has returned the stored
\* count 42 as it read it, after an earlier resolution had written it.
C20_Witness ==
  \E t \in Tabs :
    /\ pc[t] = "done"
    /\ FlagSet(t)
    /\ count[t] = Num(42)
    /\ getItem(localStorage, STORAGE_KEY) = <<"4", "2">>
    /\ numWrites = 1

\* C21: the counter's span and the Stats section start unseen; either
\* becomes revealed only by a report with isIntersecting = true for it, and
\* a report with isIntersecting = false leaves its state as it was.
C21_RevealedOnlyByTrue ==
  /\ ~isInView /\ ~statsInView
  /\ [][/\ (~isInView /\ isInView') => Intersect(TRUE)
        /\ (~statsInView /\ statsInView') => IntersectStats(TRUE)
        /\ Intersect(FALSE) => isInView' = isInView
        /\ IntersectStats(FALSE) => statsInView' = statsInView]_vars

\* C21 witness: the section was revealed while the counter's span, over
\* several frames, was not.
C21_Witness == statsInView /\ ~isInView /\ now > 0

\* C22: a report of the intersection observer for one region leaves the
\* reveal state of every other region, and whether its counter has started,
\* unchanged.
C22_RegionsIndependent ==
  [][\A r \in Regions, b \in BOOLEAN :
       Observe(r, b)
         => \A o \in Regions \ {r} :
              /\ regionInView'[o] = regionInView[o]
              /\ o \in Cards => cardStarted'[o] = cardStarted[o]]_vars

\* C22 witness: one counter has started while another, not revealed, has
\* not, the section being revealed.
C22_Witness ==
  /\ cardStarted["years"]
  /\ ~regionInView["projects"] /\ ~cardStarted["projects"]
  /\ regionInView["section"]

\* C25: handleMouse sets the offset to (pointer - centre of the bounding
\* box) * 0.3 on each axis (here times 20: 6 * pointer - 3 * (2 * left +
\* width)), reset sets it to (0, 0), and no other event changes it.
C25_MagneticOffset ==
  [][/\ \A clientX, clientY \in 0..(MaxOrigin + MaxSize) :
          HandleMouse(clientX, clientY)
            => /\ position'.x
                    = 3 * (2 * clientX - (2 * buttonRect.left + buttonRect.width))
               /\ position'.y
                    = 3 * (2 * clientY - (2 * buttonRect.top + buttonRect.height))
     /\ Reset => position' = [x |-> 0, y |-> 0]
     /\ (\A clientX, clientY \in 0..(MaxOrigin + MaxSize) :
           ~HandleMouse(clientX, clientY)) /\ ~Reset
          => position' = position]_vars

\* C25 witness: the pointer is at the right edge of a box 1 px wide and at
\* mid height of the box: the offset is (0.15, 0), kept times 20.
C25_Witness ==
  /\ buttonRect = [left |-> 1, top |-> 0, width |-> 1, height |-> 2]
  /\ position = [x |-> 3, y |-> 0]

\* C23: once the hook of Stats has settled, the visitor card's counter has
\* the returned count as its target and the settled flag, and when its
\* animation has completed the displayed number is that count; a resolution
\* that incremented returns, and passes on, the count the durable store
\* holds from its write.
C23_DisplayedIsResolved ==
  /\ []((pc[StatsTab] = "done" /\ ~loading[StatsTab])
          => /\ end = count[StatsTab]
             /\ ~loadingProp
             /\ (Started /\ rafQueue = <<>>) => displayCount = count[StatsTab].v)
  /\ [][(/\ pc[StatsTab] = "commit" /\ pc'[StatsTab] = "done"
         /\ Falsy(hasVisitedThisSession[StatsTab])
         /\ Positive(count'[StatsTab]))
          => /\ end' = count'[StatsTab]
             /\ count'[StatsTab].v = DurableCount(localStorage')]_vars

\* C23 witness: the session read 41, wrote 42, and the counter has run up
\* to 42.
C23_Witness ==
  /\ pc[StatsTab] = "done"
  /\ numWrites = 1
  /\ getItem(localStorage, STORAGE_KEY) = <<"4", "2">>
  /\ count[StatsTab] = Num(42)
  /\ rafQueue = <<>>
  /\ displayCount = 42

\* C24: in the hover version of the mounted cursor, isHovering is true
\* exactly while the pointer is over an interactive element.
C24_HoverFlagTracksPointer ==
  (cursorVariant = "hover" /\ cursorMounted)
    => (isHovering <=> pointerOver # {})

\* C30: in the "leave" version the cursor is not rendered at first; a
\* pointer-move renders it at the pointer's position; a mouseout that leaves
\* the document, a pointerleave or a blur stops rendering it; every other
\* event leaves it rendered or not, and where it was.
C30_RenderedAfterMoveUntilHide ==
  /\ cursorVariant = "leave" => ~CursorRendered(mousePosition, isVisible)
  /\ [][(cursorVariant = "leave" /\ cursorMounted /\ cursorMounted')
          => LET moved == \E x, y \in Coords : MouseMove(x, y)
                 hidden == \/ MouseOut("null")
                           \/ MouseOut("outside")
                           \/ PointerLeave
                           \/ Blur
             IN  /\ \A x, y \in Coords :
                      MouseMove(x, y)
                        => /\ CursorRendered(mousePosition', isVisible')
                           /\ mousePosition' = <<x, y>>
                 /\ hidden => ~CursorRendered(mousePosition', isVisible')
                 /\ (~moved /\ ~hidden)
                      => /\ CursorRendered(mousePosition', isVisible')
                              = CursorRendered(mousePosition, isVisible)
                         /\ mousePosition' = mousePosition]_vars

\* C30 witness: the pointer moved to (2, 1) and then left the document: the
\* position is kept and the cursor is not rendered.
C30_Witness ==
  /\ cursorVariant = "leave"
  /\ cursorMounted
  /\ mousePosition = <<2, 1>>
  /\ ~isVisible

\* C27: the session flag of a tab becomes set only by the step after that
\* tab's durable write: the write of its incremented count succeeded (a
\* write that throws ends the effect), and the flag is still unset then.
C27_DurableWriteBeforeFlag ==
  [][\A t \in Tabs :
       /\ (~FlagSet(t) /\ FlagSet(t)')
            => /\ pc[t] = "setVisited"
               /\ Falsy(hasVisitedThisSession[t])
               /\ numWrites > readAt[t]
       /\ (pc[t] = "setStorage" /\ pc'[t] = "setVisited")
            => /\ getItem(localStorage', STORAGE_KEY) = toString(currentCount[t])
               /\ currentCount[t] = PlusOne(SeedCount(readItem[t]))
               /\ numWrites' = numWrites + 1
               /\ ~FlagSet(t)']_vars

\* C27 witness: the durable write of a tab threw, and its session is not
\* marked, while another tab's write went through.
C27_Witness ==
  \E t, u \in Tabs :
    /\ pc[t] = "threw" /\ ~FlagSet(t)
    /\ FlagSet(u)
    /\ numWrites = 1

\* C28: a mounted counter never has more than one callback pending.
C28_OneLoop == mounted => Len(rafQueue) <= 1

\* C29: whenever loading is false the hook exposes the count it resolved:
\* loading is true at first, it is cleared only by the step that sets the
\* count to the working count, and the count does not change while loading
\* stays false.
C29_CountSetWithLoading ==
  /\ \A t \in Tabs : loading[t]
  /\ [][\A t \in Tabs :
          /\ (loading[t] /\ ~loading'[t])
               => (pc[t] = "commit" /\ count'[t] = currentCount[t])
          /\ (~loading[t] /\ ~loading'[t]) => count'[t] = count[t]]_vars

\* C29 witness: a first visit has settled with loading false and count 1251.
C29_Witness ==
  \E t \in Tabs : ~loading[t] /\ count[t] = Num(BASE_COUNT + 1) /\ pc[t] = "done"

====
